---- MODULE Spec2Model ----
(***************************************************************************)
(* Prediction-task lifecycle of dragoneye.Classification                   *)
(* (src/src/dragoneye/classification.py): predict_image / predict_video    *)
(* drive begin -> upload -> trigger -> poll status -> get_results as one   *)
(* coroutine; get_results is also callable on its own.  The server and the *)
(* caller's cancellation are the environment.                              *)
(***************************************************************************)
EXTENDS Integers, Sequences, FiniteSets, TLC

VARIABLES
    pc,              \* where the coroutine is suspended: idle, begin, upload,
                     \* trigger, status, sleep, results, done
    entry,           \* public method the caller invoked
    mime_type,       \* media.mime_type
    prediction_type, \* prediction_type argument of _predict_unified / get_results
    calls,           \* history: every network request and poll sleep, in order
    begin_response,  \* prediction_task_begin_response (line 201)
    status,          \* status returned by _wait_for_prediction_task_completion (line 232)
    statuses_seen,   \* history: status strings of the validated status responses
    results_uuid,    \* prediction_task_uuid argument of get_results
    payload,         \* history: body of the results response
    outcome,         \* how the call ended: return or raise
    result,          \* the typed value returned
    cause,           \* history: the source line that ended the call
    raised,          \* history over successive calls: (exception class, cause) pairs
    media,           \* media.file_or_bytes: its kind and the stream position it is at
    form,            \* the multipart form posted to the presigned url
    sessions,        \* number of aiohttp.ClientSession objects open
    images,          \* argument of assert_consistent_data_type
    stream_pos,      \* two concurrent calls: position of the stream both were given
    tasks            \* two concurrent calls: where each one is and what it uploaded

vars == <<pc, entry, mime_type, prediction_type, calls, begin_response, status,
          statuses_seen, results_uuid, payload, outcome, result, cause, raised,
          media, form, sessions, images, stream_pos, tasks>>

----------------------------------------------------------------------------
(* Bounds                                                                  *)

MaxPolls == 3    \* status requests per predict call explored

MaxFaultyCalls == 1    \* calls ending in a fault after which the caller still calls again

----------------------------------------------------------------------------
(* Values exchanged with the server                                        *)

PredictionType == {"image", "video"}

TaskIds == {"T1", "T2"}

MimeTypes == {"image/png", "video/mp4", "application/pdf"}

Statuses == {"processing", "queued_v2", "predicted", "failed", "failed_unsupported"}

\* A JSON object is a function from its member names to their values.
EmptyObject == [k \in {} |-> ""]

NoPayload == [received |-> FALSE, isObject |-> FALSE, obj |-> EmptyObject]

JsonObject(o) == [received |-> TRUE, isObject |-> TRUE, obj |-> o]

JsonArray == [received |-> TRUE, isObject |-> FALSE, obj |-> EmptyObject]

ResultsPayloads ==
    { JsonObject([predictions |-> <<>>]),
      JsonObject([predictions |-> <<"object">>, prediction_task_uuid |-> "T2"]),
      JsonObject([timestamp_to_predictions |-> EmptyObject, frames_per_second |-> 1]),
      JsonObject(EmptyObject),
      JsonArray }

\* JSON values of the presigned fields (fields: dict[str, Any])
JString(t) == [type |-> "string", text |-> t]

JNull == [type |-> "null", text |-> "null"]

\* A dict is the sequence of its items in insertion order, names distinct
UploadTarget ==
    [blob_path |-> "b", url |-> "https://up",
     fields |-> << [name |-> "key", value |-> JString("v")] >>]

UploadTargetWithNull ==
    [blob_path |-> "c", url |-> "https://up2",
     fields |-> << [name |-> "key", value |-> JString("v")],
                   [name |-> "tagging", value |-> JNull] >>]

SignedUrlLists == { <<>>, <<UploadTarget>>, <<UploadTargetWithNull, UploadTarget>> }

\* The bytes of the media file
Content == "ab"

\* Media.file_or_bytes: bytes, or a stream of the content at some position
NoMedia == [kind |-> "none", pos |-> 0]

\* "BufferedReader" stands for both cases that wrap read() in a new BytesIO
\* (BufferedReader and BinaryIO), "other" for what matches no case
Files ==
    {[kind |-> "bytes", pos |-> 0], [kind |-> "other", pos |-> 0]}
    \cup [kind : {"BytesIO", "BufferedReader"}, pos : 0..Len(Content)]

NoBegin == [prediction_task_uuid |-> "none", prediction_type |-> "none", signed_urls |-> <<>>]

NoStatus == [prediction_task_uuid |-> "none", prediction_type |-> "none", status |-> "none"]

NoResult == [model |-> "none", data |-> EmptyObject]

NoOutcome == [kind |-> "none", exc |-> "none", msg |-> ""]

----------------------------------------------------------------------------
(* Pure functions                                                          *)

HasPrefix(s, p) == Len(s) >= Len(p) /\ SubSeq(s, 1, Len(p)) = p

_is_task_successful_wrong_literal(s) == s = "success"

_is_task_successful(s) == s = "predicted"

_is_task_failed_exact(s) == s = "failed"

_is_task_failed(s) == HasPrefix(s, "failed")

_is_task_complete_success_only(s) == s = "predicted"

_is_task_complete(s) == _is_task_successful(s) \/ _is_task_failed(s)

RECURSIVE FindSlash(_, _)
FindSlash(s, i) ==
    IF i > Len(s) THEN 0
    ELSE IF SubSeq(s, i, i) = "/" THEN i
    ELSE FindSlash(s, i + 1)

\* media.mime_type.split("/")[0]
media_type(mime) ==
    LET i == FindSlash(mime, 1)
    IN  IF i = 0 THEN mime ELSE SubSeq(mime, 1, i - 1)

\* payload[key] = value
SetItem(o, key, value) ==
    [k \in DOMAIN o \cup {key} |-> IF k = key THEN value ELSE o[k]]

\* Declared fields of the pydantic response models
ClassificationPredictImageResponse == {"predictions"}

ClassificationPredictVideoResponse == {"timestamp_to_predictions", "frames_per_second"}

\* BaseModel.model_validate: every declared field is required, members that
\* are not declared are ignored.
Validates(fields, o) == fields \subseteq DOMAIN o

model_validate(name, fields, o) == [model |-> name, data |-> [f \in fields |-> o[f]]]

\* Media.bytes_io: the match falls through to ValueError
bytes_io_raises(m) == m.kind \notin {"bytes", "BytesIO", "BufferedReader"}

\* stream.read(): everything from the current position to the end
ReadToEnd(data, pos) == SubSeq(data, pos + 1, Len(data))

\* Media.bytes_io: a new BytesIO over the bytes, the caller's BytesIO itself,
\* or a new BytesIO over what read() returns from the caller's stream
bytes_io(m) ==
    CASE m.kind = "bytes"   -> [data |-> Content, pos |-> 0]
      [] m.kind = "BytesIO" -> [data |-> Content, pos |-> m.pos]
      [] OTHER              -> [data |-> ReadToEnd(Content, m.pos), pos |-> 0]

\* file_obj.seek(0)
seek0(f) == [f EXCEPT !.pos = 0]

\* str(v)
py_str(v) ==
    CASE v.type = "string" -> v.text
      [] v.type = "null"   -> "None"
      [] OTHER             -> v.text

FormFields_skips_last(fields) ==
    [i \in 1..(Len(fields) - 1) |->
        [name |-> fields[i].name, value |-> py_str(fields[i].value), filename |-> ""]]

\* for k, v in fields.items(): form.add_field(k, str(v))
FormFields(fields) ==
    [i \in 1..Len(fields) |->
        [name |-> fields[i].name, value |-> py_str(fields[i].value), filename |-> ""]]

\* form.add_field("file", file_obj, filename="file"): the part carries what
\* the file object yields from its position on
FilePart(f) == [name |-> "file", value |-> ReadToEnd(f.data, f.pos), filename |-> "file"]

\* The form _upload_media_to_prediction_task builds
upload_form(m, signed_url) ==
    Append(FormFields(signed_url.fields), FilePart(seek0(bytes_io(m))))

----------------------------------------------------------------------------
(* aiohttp.ClientSession as a scoped resource                              *)

RoundTrips == {"begin", "upload", "trigger", "status", "results"}

\* async with aiohttp.ClientSession() as session: entered
SessionEnter(n) == n + 1

SessionExit_leaks(n) == n

\* the async with block is left, by return or by exception
SessionExit(n) == n - 1

\* Open sessions after a step from suspension point p to q
SessionsAfter(p, q, n) ==
    LET released == IF p \in RoundTrips THEN SessionExit(n) ELSE n
    IN  IF q \in RoundTrips THEN SessionEnter(released) ELSE released

----------------------------------------------------------------------------
(* Exceptions and the except clauses that wrap each round trip             *)

Exc(e, m) == [exc |-> e, msg |-> m]

ClientError == Exc("ClientError", "")

CancelledError == Exc("CancelledError", "")

\* _begin_prediction_task: except ClientError
begin_except(e) ==
    IF e.exc = "ClientError"
    THEN Exc("PredictionTaskBeginError", "Error beginning prediction task:")
    ELSE e

\* _upload_media_to_prediction_task: except ClientError
upload_except(e) ==
    IF e.exc = "ClientError"
    THEN Exc("PredictionUploadError", "Error uploading media to prediction task:")
    ELSE e

trigger_except_bare(e) == Exc("PredictionTaskError", "Error initiating prediction:")

\* _predict_unified, around the trigger request: except ClientError
trigger_except(e) ==
    IF e.exc = "ClientError"
    THEN Exc("PredictionTaskError", "Error initiating prediction:")
    ELSE e

\* status: the round trip is in no try block
status_except(e) == e

\* get_results: except ClientError
results_except(e) ==
    IF e.exc = "ClientError"
    THEN Exc("PredictionTaskResultsUnavailableError", "Error getting prediction task results: ")
    ELSE e

\* What leaves the coroutine when e is thrown at suspension point p
Except(p, e) ==
    CASE p = "begin"   -> begin_except(e)
      [] p = "upload"  -> upload_except(e)
      [] p = "trigger" -> trigger_except(e)
      [] p = "status"  -> status_except(e)
      [] p = "results" -> results_except(e)
      [] OTHER         -> e

----------------------------------------------------------------------------
(* Request headers                                                         *)

authorization_on_every_request(op) == TRUE

\* Whether the request carries "Authorization: Bearer <api_key>": begin, trigger,
\* status and results pass headers=, the upload post passes none
authorization(op) == op \in {"begin", "trigger", "status", "results"}

----------------------------------------------------------------------------
(* History bookkeeping                                                     *)

Call(op, auth, uuid) == [op |-> op, res |-> "pending", auth |-> auth, uuid |-> uuid]

Completed(res) == [calls EXCEPT ![Len(calls)].res = res]

NumCalls(op) == Cardinality({i \in 1..Len(calls) : calls[i].op = op})

\* The five faults the error taxonomy tells apart
Faults == {"begin_rt", "upload_rt", "trigger_rt", "task_failed", "results_rt"}

Raise(e, c) ==
    /\ pc' = "done"
    /\ outcome' = [kind |-> "raise", exc |-> e.exc, msg |-> e.msg]
    /\ result' = NoResult
    /\ cause' = c
    /\ raised' = IF c \in Faults THEN raised \cup {<<e.exc, c>>} ELSE raised

Return(v) ==
    /\ pc' = "done"
    /\ outcome' = [kind |-> "return", exc |-> "none", msg |-> ""]
    /\ result' = v
    /\ cause' = "returned"
    /\ UNCHANGED raised

Suspend(p) ==
    /\ pc' = p
    /\ UNCHANGED <<outcome, result, cause, raised>>

----------------------------------------------------------------------------
(* Initial state: a Classification object, no call in progress             *)

Init ==
    /\ pc = "idle"
    /\ entry = "none"
    /\ mime_type = "none"
    /\ prediction_type = "none"
    /\ calls = <<>>
    /\ begin_response = NoBegin
    /\ status = NoStatus
    /\ statuses_seen = <<>>
    /\ results_uuid = "none"
    /\ payload = NoPayload
    /\ outcome = NoOutcome
    /\ result = NoResult
    /\ cause = "none"
    /\ raised = {}
    /\ media = NoMedia
    /\ form = <<>>
    /\ sessions = 0
    /\ images = <<>>
    /\ stream_pos = 0
    /\ tasks = <<>>

\* A call starts with fresh locals; only the history across calls is kept.
FreshCall(e, m, t) ==
    /\ pc = "idle"
    /\ Cardinality(raised) <= MaxFaultyCalls
    /\ entry' = e
    /\ mime_type' = m
    /\ prediction_type' = t
    /\ begin_response' = NoBegin
    /\ status' = NoStatus
    /\ statuses_seen' = <<>>
    /\ payload' = NoPayload
    /\ form' = <<>>

\* _predict_unified up to its first await: the begin request is sent
_predict_unified ==
    /\ calls' = <<Call("begin", authorization("begin"), "none")>>
    /\ results_uuid' = "none"
    /\ pc' = "begin"
    /\ outcome' = NoOutcome
    /\ result' = NoResult
    /\ cause' = "none"
    /\ UNCHANGED raised

IncorrectMediaType ==
    /\ calls' = <<>>
    /\ results_uuid' = "none"
    /\ pc' = "done"
    /\ outcome' = [kind |-> "raise", exc |-> "IncorrectMediaTypeError", msg |-> ""]
    /\ result' = NoResult
    /\ cause' = "media_type"
    /\ UNCHANGED raised

\* Variant: the media type is not checked
predict_image_unchecked ==
    \E m \in MimeTypes, f \in Files :
        /\ FreshCall("predict_image", m, "image")
        /\ media' = f
        /\ images' = <<>>
        /\ _predict_unified
        /\ sessions' = SessionsAfter(pc, pc', sessions)
        /\ UNCHANGED <<stream_pos, tasks>>

predict_image ==
    \E m \in MimeTypes, f \in Files :
        /\ FreshCall("predict_image", m, IF media_type(m) = "image" THEN "image" ELSE "none")
        /\ media' = f
        /\ images' = <<>>
        /\ IF media_type(m) = "image" THEN _predict_unified ELSE IncorrectMediaType
        /\ sessions' = SessionsAfter(pc, pc', sessions)
        /\ UNCHANGED <<stream_pos, tasks>>

predict_video ==
    \E m \in MimeTypes, f \in Files :
        /\ FreshCall("predict_video", m, IF media_type(m) = "video" THEN "video" ELSE "none")
        /\ media' = f
        /\ images' = <<>>
        /\ IF media_type(m) = "video" THEN _predict_unified ELSE IncorrectMediaType
        /\ sessions' = SessionsAfter(pc, pc', sessions)
        /\ UNCHANGED <<stream_pos, tasks>>

\* get_results called on its own, up to its await
get_results ==
    \E u \in TaskIds, t \in PredictionType \cup {"audio"} :
        /\ FreshCall("get_results", "none", t)
        /\ calls' = <<Call("results", authorization("results"), u)>>
        /\ results_uuid' = u
        /\ pc' = "results"
        /\ outcome' = NoOutcome
        /\ result' = NoResult
        /\ cause' = "none"
        /\ UNCHANGED raised
        /\ media' = NoMedia
        /\ images' = <<>>
        /\ sessions' = SessionsAfter(pc, pc', sessions)
        /\ UNCHANGED <<stream_pos, tasks>>

----------------------------------------------------------------------------
(* types/image.py                                                          *)

MaxImages == 2    \* length of the image lists explored

\* An Image by which of its two optional members are not None
ImageItems == [file_or_bytes : BOOLEAN, url : BOOLEAN]

ImageLists == UNION {[1..n -> ImageItems] : n \in 0..MaxImages}

consistent_data_type_or(imgs) ==
    (\A i \in 1..Len(imgs) : imgs[i].file_or_bytes) \/ (\A i \in 1..Len(imgs) : imgs[i].url)

\* all(image.file_or_bytes is not None ...) ^ all(image.url is not None ...)
consistent_data_type(imgs) ==
    (\A i \in 1..Len(imgs) : imgs[i].file_or_bytes) # (\A i \in 1..Len(imgs) : imgs[i].url)

\* assert_consistent_data_type(images): returns None or the assert fails
assert_consistent_data_type ==
    \E imgs \in ImageLists :
        /\ FreshCall("assert_consistent_data_type", "none", "none")
        /\ images' = imgs
        /\ media' = NoMedia
        /\ calls' = <<>>
        /\ results_uuid' = "none"
        /\ pc' = "done"
        /\ outcome' = IF consistent_data_type(imgs)
                       THEN [kind |-> "return", exc |-> "none", msg |-> ""]
                       ELSE [kind |-> "raise", exc |-> "AssertionError", msg |-> ""]
        /\ result' = NoResult
        /\ cause' = IF consistent_data_type(imgs) THEN "returned" ELSE "inconsistent_images"
        /\ UNCHANGED <<raised, sessions, stream_pos, tasks>>

----------------------------------------------------------------------------
(* Round trips of _predict_unified                                         *)

HttpOutcomes == {"ok", "ClientError"}

BeginBodies ==
    [prediction_task_uuid : TaskIds, prediction_type : PredictionType,
     signed_urls : SignedUrlLists]

\* The begin response arrives: _begin_prediction_task returns or raises, then
\* the type check, signed_urls[0], the upload form and the upload request
\* (lines 201-213, 253-279)
BeginResponse ==
    /\ pc = "begin"
    /\ UNCHANGED <<entry, mime_type, media, images, prediction_type, status, statuses_seen,
                   results_uuid, payload>>
    /\ \E http \in HttpOutcomes :
         IF http # "ok" THEN
             /\ calls' = Completed("error")
             /\ begin_response' = NoBegin
             /\ UNCHANGED form
             /\ Raise(begin_except(ClientError), "begin_rt")
         ELSE \E valid \in BOOLEAN :
         IF ~valid THEN
             /\ calls' = Completed("ok")
             /\ begin_response' = NoBegin
             /\ UNCHANGED form
             /\ Raise(Exc("ValidationError", ""), "begin_schema")
         ELSE \E body \in BeginBodies :
         IF body.prediction_type # prediction_type THEN
             /\ calls' = Completed("ok")
             /\ begin_response' = body
             /\ UNCHANGED form
             /\ Raise(Exc("PredictionTaskBeginError", "Prediction type mismatch: "),
                      "type_mismatch")
         ELSE IF Len(body.signed_urls) = 0 THEN
             /\ calls' = Completed("ok")
             /\ begin_response' = body
             /\ UNCHANGED form
             /\ Raise(Exc("IndexError", ""), "no_upload_target")
         ELSE IF bytes_io_raises(media) THEN
             /\ calls' = Completed("ok")
             /\ begin_response' = body
             /\ UNCHANGED form
             /\ Raise(Exc("ValueError", "Invalid image type: Must be bytes or BinaryIO"),
                      "invalid_media")
         ELSE
             /\ calls' = Append(Completed("ok"), Call("upload", authorization("upload"), "none"))
             /\ begin_response' = body
             /\ form' = upload_form(media, body.signed_urls[1])
             /\ Suspend("upload")
    /\ sessions' = SessionsAfter(pc, pc', sessions)
    /\ UNCHANGED <<stream_pos, tasks>>

\* Variant: the upload error is swallowed and the trigger request is sent anyway
UploadResponse_swallow ==
    /\ pc = "upload"
    /\ UNCHANGED <<entry, mime_type, media, form, images, prediction_type, begin_response, status,
                   statuses_seen, results_uuid, payload>>
    /\ \E http \in HttpOutcomes :
         /\ calls' = Append(Completed(IF http = "ok" THEN "ok" ELSE "error"),
                            Call("trigger", TRUE, begin_response.prediction_task_uuid))
         /\ Suspend("trigger")
    /\ sessions' = SessionsAfter(pc, pc', sessions)
    /\ UNCHANGED <<stream_pos, tasks>>

\* The upload response arrives; on success the trigger request is sent
\* (lines 273-283, 215-227)
UploadResponse ==
    /\ pc = "upload"
    /\ UNCHANGED <<entry, mime_type, media, form, images, prediction_type, begin_response, status,
                   statuses_seen, results_uuid, payload>>
    /\ \E http \in HttpOutcomes :
         IF http # "ok" THEN
             /\ calls' = Completed("error")
             /\ Raise(upload_except(ClientError), "upload_rt")
         ELSE
             /\ calls' = Append(Completed("ok"),
                                Call("trigger", authorization("trigger"), begin_response.prediction_task_uuid))
             /\ Suspend("trigger")
    /\ sessions' = SessionsAfter(pc, pc', sessions)
    /\ UNCHANGED <<stream_pos, tasks>>

\* Variant: a failed trigger request is sent again
TriggerResponse_retry ==
    /\ pc = "trigger"
    /\ UNCHANGED <<entry, mime_type, media, form, images, prediction_type, begin_response, status,
                   statuses_seen, results_uuid, payload>>
    /\ \E http \in HttpOutcomes :
         IF http # "ok" THEN
             /\ NumCalls("trigger") < MaxPolls
             /\ calls' = Append(Completed("error"),
                                Call("trigger", TRUE, begin_response.prediction_task_uuid))
             /\ Suspend("trigger")
         ELSE
             /\ calls' = Append(Completed("ok"),
                                Call("status", TRUE, begin_response.prediction_task_uuid))
             /\ Suspend("status")
    /\ sessions' = SessionsAfter(pc, pc', sessions)
    /\ UNCHANGED <<stream_pos, tasks>>

\* The trigger response arrives; on success polling starts with the first
\* status request (lines 228-232, 247-248, 117-121)
TriggerResponse ==
    /\ pc = "trigger"
    /\ UNCHANGED <<entry, mime_type, media, form, images, prediction_type, begin_response, status,
                   statuses_seen, results_uuid, payload>>
    /\ \E http \in HttpOutcomes :
         IF http # "ok" THEN
             /\ calls' = Completed("error")
             /\ Raise(trigger_except(ClientError), "trigger_rt")
         ELSE
             /\ calls' = Append(Completed("ok"),
                                Call("status", authorization("status"), begin_response.prediction_task_uuid))
             /\ Suspend("status")
    /\ sessions' = SessionsAfter(pc, pc', sessions)
    /\ UNCHANGED <<stream_pos, tasks>>

StatusBodies ==
    [prediction_task_uuid : TaskIds, prediction_type : PredictionType, status : Statuses]

\* A status response arrives: status() returns or raises; the polling loop
\* either sleeps or returns, and then _predict_unified raises the task
\* failure or sends the results request (lines 121-125, 249-251, 236-242, 151-156)
StatusResponse ==
    /\ pc = "status"
    /\ UNCHANGED <<entry, mime_type, media, form, images, prediction_type, begin_response, payload>>
    /\ \E http \in HttpOutcomes :
         IF http # "ok" THEN
             /\ calls' = Completed("error")
             /\ UNCHANGED <<status, statuses_seen, results_uuid>>
             /\ Raise(status_except(ClientError), "status_rt")
         ELSE \E valid \in BOOLEAN :
         IF ~valid THEN
             /\ calls' = Completed("ok")
             /\ UNCHANGED <<status, statuses_seen, results_uuid>>
             /\ Raise(Exc("ValidationError", ""), "status_schema")
         ELSE \E body \in StatusBodies :
             /\ statuses_seen' = Append(statuses_seen, body.status)
             /\ IF ~_is_task_complete(body.status) THEN
                    /\ calls' = Append(Completed("ok"), Call("sleep", FALSE, "none"))
                    /\ UNCHANGED <<status, results_uuid>>
                    /\ Suspend("sleep")
                ELSE IF _is_task_failed(body.status) THEN
                    /\ calls' = Completed("ok")
                    /\ status' = body
                    /\ UNCHANGED results_uuid
                    /\ Raise(Exc("PredictionTaskError",
                                 "Prediction task failed: " \o body.status),
                             "task_failed")
                ELSE
                    /\ calls' = Append(Completed("ok"),
                                       Call("results", authorization("results"), body.prediction_task_uuid))
                    /\ status' = body
                    /\ results_uuid' = body.prediction_task_uuid
                    /\ Suspend("results")
    /\ sessions' = SessionsAfter(pc, pc', sessions)
    /\ UNCHANGED <<stream_pos, tasks>>

\* Variant: the loop gives up after two status requests
SleepDone_gives_up ==
    /\ pc = "sleep"
    /\ NumCalls("status") < 2
    /\ calls' = Append(Completed("ok"),
                       Call("status", TRUE, begin_response.prediction_task_uuid))
    /\ Suspend("status")
    /\ UNCHANGED <<entry, mime_type, media, form, images, prediction_type, begin_response, status,
                   statuses_seen, results_uuid, payload>>
    /\ sessions' = SessionsAfter(pc, pc', sessions)
    /\ UNCHANGED <<stream_pos, tasks>>

\* asyncio.sleep(polling_interval) elapses and the loop sends the next
\* status request (lines 251, 247-248)
SleepDone ==
    /\ pc = "sleep"
    /\ NumCalls("status") < MaxPolls
    /\ calls' = Append(Completed("ok"),
                       Call("status", authorization("status"), begin_response.prediction_task_uuid))
    /\ Suspend("status")
    /\ UNCHANGED <<entry, mime_type, media, form, images, prediction_type, begin_response, status,
                   statuses_seen, results_uuid, payload>>
    /\ sessions' = SessionsAfter(pc, pc', sessions)
    /\ UNCHANGED <<stream_pos, tasks>>

\* The results response arrives: get_results raises, or injects the task id
\* and decodes by prediction type (lines 157-173)
ResultsResponse ==
    /\ pc = "results"
    /\ UNCHANGED <<entry, mime_type, media, form, images, prediction_type, begin_response, status,
                   statuses_seen, results_uuid>>
    /\ \E http \in HttpOutcomes :
         IF http # "ok" THEN
             /\ calls' = Completed("error")
             /\ UNCHANGED payload
             /\ Raise(results_except(ClientError), "results_rt")
         ELSE \E body \in ResultsPayloads :
             /\ calls' = Completed("ok")
             /\ payload' = body
             /\ IF ~body.isObject THEN
                    Raise(Exc("TypeError", ""), "results_not_object")
                ELSE
                    LET p == SetItem(body.obj, "prediction_task_uuid", results_uuid)
                    IN  IF prediction_type = "image" THEN
                            IF Validates(ClassificationPredictImageResponse, p)
                            THEN Return(model_validate("ClassificationPredictImageResponse",
                                                       ClassificationPredictImageResponse, p))
                            ELSE Raise(Exc("ValidationError", ""), "results_schema")
                        ELSE IF prediction_type = "video" THEN
                            IF Validates(ClassificationPredictVideoResponse, p)
                            THEN Return(model_validate("ClassificationPredictVideoResponse",
                                                       ClassificationPredictVideoResponse, p))
                            ELSE Raise(Exc("ValidationError", ""), "results_schema")
                        ELSE
                            Raise(Exc("ValueError", "Unsupported prediction type: "
                                                    \o prediction_type),
                                  "unsupported_type")
    /\ sessions' = SessionsAfter(pc, pc', sessions)
    /\ UNCHANGED <<stream_pos, tasks>>

SuspensionPoints == {"begin", "upload", "trigger", "status", "sleep", "results"}

\* The caller cancels the task: CancelledError is thrown into the coroutine
\* at the await it is suspended on and passes the except clause around it.
Cancel ==
    /\ pc \in SuspensionPoints
    /\ calls' = Completed("cancelled")
    /\ Raise(Except(pc, CancelledError), "cancelled")
    /\ UNCHANGED <<entry, mime_type, media, form, images, prediction_type, begin_response, status,
                   statuses_seen, results_uuid, payload>>
    /\ sessions' = SessionsAfter(pc, pc', sessions)
    /\ UNCHANGED <<stream_pos, tasks>>

\* The call has returned or raised to the caller and its frame is gone; the
\* Classification object keeps nothing of it.
CallEnds ==
    /\ pc = "done"
    /\ pc' = "idle"
    /\ entry' = "none"
    /\ mime_type' = "none"
    /\ prediction_type' = "none"
    /\ calls' = <<>>
    /\ begin_response' = NoBegin
    /\ status' = NoStatus
    /\ statuses_seen' = <<>>
    /\ results_uuid' = "none"
    /\ payload' = NoPayload
    /\ outcome' = NoOutcome
    /\ result' = NoResult
    /\ cause' = "none"
    /\ media' = NoMedia
    /\ form' = <<>>
    /\ images' = <<>>
    /\ UNCHANGED <<raised, sessions, stream_pos, tasks>>

Next ==
    \/ CallEnds
    \/ predict_image
    \/ predict_video
    \/ get_results
    \/ assert_consistent_data_type
    \/ BeginResponse
    \/ UploadResponse
    \/ TriggerResponse
    \/ StatusResponse
    \/ SleepDone
    \/ ResultsResponse
    \/ Cancel

Spec == Init /\ [][Next]_vars

----------------------------------------------------------------------------
(* Two predict calls running concurrently on one Classification object,    *)
(* both given the same Media object; the server answers every request with *)
(* success and the first status is "predicted", so that a call running     *)
(* alone uploads the media and returns.                                    *)

Tasks == {1, 2}

NoUpload == "none"

NewTask == [pc |-> "start", shared |-> FALSE, data |-> "", pos |-> 0,
            uploaded |-> NoUpload, outcome |-> "none"]

\* The variables of a single call stay as they are after construction
single == <<pc, entry, mime_type, prediction_type, calls, begin_response, status,
            statuses_seen, results_uuid, payload, outcome, result, cause, raised,
            form, sessions, images>>

InitShared ==
    /\ pc = "idle"
    /\ entry = "none"
    /\ mime_type = "none"
    /\ prediction_type = "none"
    /\ calls = <<>>
    /\ begin_response = NoBegin
    /\ status = NoStatus
    /\ statuses_seen = <<>>
    /\ results_uuid = "none"
    /\ payload = NoPayload
    /\ outcome = NoOutcome
    /\ result = NoResult
    /\ cause = "none"
    /\ raised = {}
    /\ form = <<>>
    /\ sessions = 0
    /\ images = <<>>
    /\ media \in Files
    /\ stream_pos = media.pos
    /\ tasks = [i \in Tasks |-> NewTask]

\* The Media object as call i finds it
SharedMedia == [kind |-> media.kind, pos |-> stream_pos]

\* predict_image / predict_video up to the first await: the begin request
TaskBegin(i) ==
    /\ tasks[i].pc = "start"
    /\ tasks' = [tasks EXCEPT ![i].pc = "begin"]
    /\ UNCHANGED <<single, media, stream_pos>>

\* The begin response arrives; media.bytes_io(), file_obj.seek(0) and the
\* upload post (lines 253-279).  bytes_io() on a reader consumes the caller's
\* stream; on a BytesIO it hands out the caller's object, which seek(0) rewinds.
TaskUpload(i) ==
    /\ tasks[i].pc = "begin"
    /\ UNCHANGED <<single, media>>
    /\ IF bytes_io_raises(SharedMedia) THEN
           /\ tasks' = [tasks EXCEPT ![i].pc = "done", ![i].outcome = "ValueError"]
           /\ UNCHANGED stream_pos
       ELSE
           LET f == seek0(bytes_io(SharedMedia))
           IN  /\ tasks' = [tasks EXCEPT ![i].pc = "upload",
                                         ![i].shared = (media.kind = "BytesIO"),
                                         ![i].data = f.data,
                                         ![i].pos = f.pos]
               /\ stream_pos' = CASE media.kind = "BytesIO"        -> f.pos
                                  [] media.kind = "BufferedReader" -> Len(Content)
                                  [] OTHER                          -> stream_pos

\* While the upload post is awaited the file part is read from the file
\* object, from the position the object is at to its end
TaskSendFile(i) ==
    /\ tasks[i].pc = "upload"
    /\ UNCHANGED <<single, media>>
    /\ LET from == IF tasks[i].shared THEN stream_pos ELSE tasks[i].pos
       IN  /\ tasks' = [tasks EXCEPT ![i].pc = "sent",
                                     ![i].uploaded = ReadToEnd(tasks[i].data, from),
                                     ![i].pos = Len(tasks[i].data)]
           /\ stream_pos' = IF tasks[i].shared THEN Len(Content) ELSE stream_pos

\* The upload response arrives and the trigger request is sent
TaskTrigger(i) ==
    /\ tasks[i].pc = "sent"
    /\ tasks' = [tasks EXCEPT ![i].pc = "trigger"]
    /\ UNCHANGED <<single, media, stream_pos>>

\* The trigger response arrives and the status request is sent
TaskStatus(i) ==
    /\ tasks[i].pc = "trigger"
    /\ tasks' = [tasks EXCEPT ![i].pc = "status"]
    /\ UNCHANGED <<single, media, stream_pos>>

\* The status response "predicted" arrives and the results request is sent
TaskResults(i) ==
    /\ tasks[i].pc = "status"
    /\ tasks' = [tasks EXCEPT ![i].pc = "results"]
    /\ UNCHANGED <<single, media, stream_pos>>

\* The results response arrives and the call returns
TaskReturn(i) ==
    /\ tasks[i].pc = "results"
    /\ tasks' = [tasks EXCEPT ![i].pc = "done", ![i].outcome = "return"]
    /\ UNCHANGED <<single, media, stream_pos>>

NextShared ==
    \E i \in Tasks :
        \/ TaskBegin(i)
        \/ TaskUpload(i)
        \/ TaskSendFile(i)
        \/ TaskTrigger(i)
        \/ TaskStatus(i)
        \/ TaskResults(i)
        \/ TaskReturn(i)

SpecShared == InitShared /\ [][NextShared]_vars

TypeOK ==
    /\ pc \in SuspensionPoints \cup {"idle", "done"}
    /\ outcome.kind \in {"none", "return", "raise"}
    /\ (pc = "done") = (outcome.kind # "none")

----------------------------------------------------------------------------
(* Properties                                                              *)

InPredict == entry \in {"predict_image", "predict_video"}

EntryType == IF entry = "predict_image" THEN "image" ELSE "video"

LastSeen == statuses_seen[Len(statuses_seen)]

LastCall == calls[Len(calls)]

HasSuffix(s, x) == Len(s) >= Len(x) /\ SubSeq(s, Len(s) - Len(x) + 1, Len(s)) = x

Terminal(s) == s = "predicted" \/ HasPrefix(s, "failed")

IsPoll(c) == c.op \in {"status", "sleep"}

IsRequest(c) == c.op # "sleep"

Polls == SelectSeq(calls, IsPoll)

Net == SelectSeq(calls, IsRequest)

\* C1: when polling ends on a status whose name begins with "failed", predict
\* has ended by raising PredictionTaskError carrying that status string and
\* no results request was sent.
C1_FailedStatusRaisesTaskError ==
    (InPredict /\ statuses_seen # <<>> /\ HasPrefix(LastSeen, "failed")) =>
        /\ pc = "done"
        /\ outcome.kind = "raise"
        /\ outcome.exc = "PredictionTaskError"
        /\ HasSuffix(outcome.msg, LastSeen)
        /\ NumCalls("results") = 0

C1_Witness ==
    /\ InPredict
    /\ pc = "done"
    /\ Len(statuses_seen) = 2
    /\ LastSeen = "failed_unsupported"
    /\ outcome.exc = "PredictionTaskError"

\* C2: when polling ends on the status exactly "predicted", exactly one
\* results request is sent, directly after the last status request, and when
\* its round trip succeeds and the body has the fields of the requested type,
\* predict returns the value decoded from that body.
C2_PredictedFetchesResultsOnce ==
    (InPredict /\ statuses_seen # <<>> /\ LastSeen = "predicted") =>
        /\ NumCalls("results") = 1
        /\ LastCall.op = "results"
        /\ calls[Len(calls) - 1].op = "status"
        /\ (pc = "done" /\ LastCall.res = "ok" /\ payload.isObject) =>
             /\ (entry = "predict_image" /\ "predictions" \in DOMAIN payload.obj) =>
                  /\ outcome.kind = "return"
                  /\ result.model = "ClassificationPredictImageResponse"
                  /\ result.data.predictions = payload.obj.predictions
             /\ (entry = "predict_video"
                 /\ {"timestamp_to_predictions", "frames_per_second"} \subseteq DOMAIN payload.obj) =>
                  /\ outcome.kind = "return"
                  /\ result.model = "ClassificationPredictVideoResponse"
                  /\ result.data.frames_per_second = payload.obj.frames_per_second
                  /\ result.data.timestamp_to_predictions = payload.obj.timestamp_to_predictions

C2_Witness ==
    /\ entry = "predict_image"
    /\ pc = "done"
    /\ Len(statuses_seen) = 2
    /\ LastSeen = "predicted"
    /\ outcome.kind = "return"
    /\ result.data.predictions = <<"object">>

\* C3: after N non-terminal statuses followed by a terminal one, exactly N+1
\* status requests were sent, one sleep lies between each two consecutive
\* status requests and none follows the terminal status.
C3_PollsOncePerStatus ==
    (/\ InPredict
     /\ statuses_seen # <<>>
     /\ Terminal(LastSeen)
     /\ \A i \in 1..(Len(statuses_seen) - 1) : ~Terminal(statuses_seen[i])) =>
        LET N == Len(statuses_seen) - 1
        IN  /\ NumCalls("status") = N + 1
            /\ NumCalls("sleep") = N
            /\ Len(Polls) = 2 * N + 1
            /\ \A i \in 1..Len(Polls) :
                 Polls[i].op = IF i % 2 = 1 THEN "status" ELSE "sleep"

C3_Witness ==
    /\ InPredict
    /\ Len(statuses_seen) = 3
    /\ Terminal(LastSeen)
    /\ NumCalls("status") = 3
    /\ NumCalls("sleep") = 2

\* C4: the requests of one predict call come in the order begin, upload,
\* trigger, status (one or more), results; each is sent only after the one
\* before it succeeded, results only after a status response "predicted", and
\* begin, upload, trigger and results are sent at most once.
C4_LifecycleOrder ==
    InPredict =>
        \A i \in 1..Len(Net) :
            /\ (Net[i].op = "begin") = (i = 1)
            /\ Net[i].op = "upload" =>
                 /\ i = 2
                 /\ Net[1].res = "ok"
                 /\ begin_response.prediction_type = EntryType
            /\ Net[i].op = "trigger" =>
                 /\ i = 3
                 /\ Net[2].op = "upload"
                 /\ Net[2].res = "ok"
            /\ Net[i].op = "status" =>
                 /\ i >= 4
                 /\ Net[3].op = "trigger"
                 /\ Net[3].res = "ok"
                 /\ \A j \in 4..i : Net[j].op = "status"
            /\ Net[i].op = "results" =>
                 /\ i >= 5
                 /\ i = Len(Net)
                 /\ Net[i - 1].op = "status"
                 /\ Net[i - 1].res = "ok"
                 /\ statuses_seen # <<>>
                 /\ LastSeen = "predicted"

C4_Witness ==
    /\ InPredict
    /\ pc = "done"
    /\ outcome.kind = "return"
    /\ Len(Net) = 6
    /\ Net[6].op = "results"

\* C5: a failed round trip is the last call of the invocation: nothing is
\* sent after it and the invocation has ended with an exception.
C5_FailedRoundTripIsLast ==
    \A i \in 1..Len(calls) :
        calls[i].res = "error" =>
            /\ i = Len(calls)
            /\ pc = "done"
            /\ outcome.kind = "raise"

C5_Witness ==
    /\ InPredict
    /\ pc = "done"
    /\ Len(statuses_seen) = 1
    /\ LastCall.op = "status"
    /\ LastCall.res = "error"
    /\ outcome.kind = "raise"

\* C6: predict returns a result only when the prediction type of the entry
\* point, the one returned by begin and the one returned with the terminal
\* status are all equal.
C6_ReturnsOnlyOnEqualTypes ==
    (InPredict /\ outcome.kind = "return") =>
        /\ begin_response.prediction_type = EntryType
        /\ status.prediction_type = EntryType

\* C7: every typed result returned carries the id of the task it was fetched
\* for.
C7_ResultCarriesTaskId ==
    (entry \in {"predict_image", "predict_video", "get_results"} /\ outcome.kind = "return") =>
        /\ "prediction_task_uuid" \in DOMAIN result.data
        /\ result.data["prediction_task_uuid"] = results_uuid

\* C8: a cancellation raised while predict is suspended in a round trip or
\* in a poll sleep ends the call with CancelledError, which is not the
\* task-failure error, and nothing is sent after it.
C8_CancellationEndsCall ==
    \A i \in 1..Len(calls) :
        calls[i].res = "cancelled" =>
            /\ i = Len(calls)
            /\ pc = "done"
            /\ outcome.kind = "raise"
            /\ outcome.exc = "CancelledError"
            /\ outcome.exc # "PredictionTaskError"

C8_Witness ==
    /\ InPredict
    /\ pc = "done"
    /\ NumCalls("status") = 2
    /\ LastCall.op = "status"
    /\ LastCall.res = "cancelled"
    /\ outcome.exc = "CancelledError"

\* C9: a failed begin, upload or trigger round trip, a terminal failed status
\* and a failed results round trip each surface as a different exception
\* class: no class was ever raised for two of these five faults.
C9_FaultKindsDistinct ==
    \A a \in raised, b \in raised : a[1] = b[1] => a[2] = b[2]

DeclaredErrors ==
    { "IncorrectMediaTypeError", "ValueError",       \* usage error
      "PredictionTaskBeginError",                    \* begin fault
      "PredictionUploadError",                       \* upload fault
      "PredictionTaskError",                         \* trigger fault, task failure
      "PredictionTaskResultsUnavailableError",       \* results unavailable
      "ValidationError",                             \* schema mismatch
      "CancelledError" }                             \* cancelled

\* C10: every predict call that has ended returned a typed result or raised
\* one of the declared error kinds.
C10_OnlyDeclaredOutcomes ==
    (InPredict /\ pc = "done") =>
        \/ outcome.kind = "return"
        \/ outcome.exc \in DeclaredErrors

\* C11: while every status received is neither "predicted" nor starts with
\* "failed" (unrecognised strings included), and no round trip failed and no
\* cancellation was raised, predict has neither returned nor raised: it is
\* sleeping or waiting for the next status response, one status request was
\* sent per status received, and the next request is always sent after the
\* sleep (no attempt limit below the explored bound).
C11_NonTerminalKeepsPolling ==
    (/\ InPredict
     /\ statuses_seen # <<>>
     /\ \A i \in 1..Len(statuses_seen) : ~Terminal(statuses_seen[i])
     /\ \A i \in 1..Len(calls) : calls[i].res \notin {"error", "cancelled"}
     /\ cause # "status_schema") =>
        /\ pc \in {"sleep", "status"}
        /\ outcome.kind = "none"
        /\ NumCalls("status") = Len(statuses_seen) + (IF pc = "status" THEN 1 ELSE 0)
        /\ (pc = "sleep" /\ NumCalls("status") < MaxPolls) => ENABLED SleepDone

C11_Witness ==
    /\ InPredict
    /\ pc = "status"
    /\ statuses_seen = <<"queued_v2", "processing">>
    /\ NumCalls("status") = 3
    /\ outcome.kind = "none"

\* C12: the upload request never carries the bearer-token Authorization
\* header, and every begin, trigger, status and results request carries it.
C12_AuthorizationHeader ==
    \A i \in 1..Len(calls) :
        /\ calls[i].op = "upload" => ~calls[i].auth
        /\ calls[i].op \in {"begin", "trigger", "status", "results"} => calls[i].auth

C12_Witness ==
    /\ InPredict
    /\ pc = "done"
    /\ outcome.kind = "return"
    /\ Len(Net) = 5
    /\ ~Net[2].auth
    /\ \A i \in {1, 3, 4, 5} : Net[i].auth

IsFormField(part) == part.filename = ""

\* The presigned fields of the upload target the form was built from
PresignedFields == begin_response.signed_urls[1].fields

\* What a server reading the form gets back: each field as a name and a string
DecodeForm ==
    LET sent == SelectSeq(form, IsFormField)
    IN  [i \in 1..Len(sent) |-> [name |-> sent[i].name, value |-> JString(sent[i].value)]]

\* C13: for every media source variant and every position of the caller's
\* stream, the file part of the upload is the complete media content from
\* offset 0.
C13_FilePartIsWholeMedia ==
    (InPredict /\ form # <<>>) => form[Len(form)].value = Content

\* C14 (as stated): decoding the submitted form gives back the original
\* presigned-field mapping, for every mapping.
C14_FormDecodesToFields ==
    (InPredict /\ form # <<>>) => DecodeForm = PresignedFields

\* C14 (amended): the form holds one field per presigned field, same names in
\* the same order, and nothing else but the single file part; every value is
\* sent as str(value), so a string value is sent verbatim and null is sent as
\* the text "None"; a mapping of string values is given back by decoding.
C14_FormKeepsNamesAndStringValues ==
    (InPredict /\ form # <<>>) =>
        LET sent == SelectSeq(form, IsFormField)
        IN  /\ Len(form) = Len(PresignedFields) + 1
            /\ Len(sent) = Len(PresignedFields)
            /\ form[Len(form)].name = "file"
            /\ form[Len(form)].filename = "file"
            /\ \A i \in 1..Len(PresignedFields) :
                 /\ form[i].name = PresignedFields[i].name
                 /\ PresignedFields[i].value.type = "string" =>
                        form[i].value = PresignedFields[i].value.text
                 /\ PresignedFields[i].value.type = "null" => form[i].value = "None"
            /\ (\A i \in 1..Len(PresignedFields) : PresignedFields[i].value.type = "string")
                 => DecodeForm = PresignedFields

C14_Witness ==
    /\ InPredict
    /\ pc = "trigger"
    /\ Len(form) = 3
    /\ form[1].name = "key"
    /\ form[1].value = "v"
    /\ form[2].name = "tagging"
    /\ form[2].value = "None"

AllCarryBytes == \A i \in 1..Len(images) : images[i].file_or_bytes

AllCarryUrl == \A i \in 1..Len(images) : images[i].url

\* Some item carries bytes, some item carries a URL, and neither all carry
\* bytes nor all carry a URL
MixedImages ==
    /\ \E i \in 1..Len(images) : images[i].file_or_bytes
    /\ \E i \in 1..Len(images) : images[i].url
    /\ ~AllCarryBytes
    /\ ~AllCarryUrl

\* Non-empty, and every item carries exactly one of bytes and URL
SingleSourceImages ==
    /\ images # <<>>
    /\ \A i \in 1..Len(images) : images[i].file_or_bytes # images[i].url

CheckedImages == entry = "assert_consistent_data_type" /\ pc = "done"

\* C15 (as stated): the check fails for every list that mixes items carrying
\* bytes with items carrying a URL, passes for every list in which all items
\* carry bytes or all carry URLs, and issues no HTTP call.
C15_HomogeneityAsStated ==
    CheckedImages =>
        /\ calls = <<>>
        /\ MixedImages => outcome.kind = "raise"
        /\ (AllCarryBytes \/ AllCarryUrl) => outcome.kind = "return"

\* C15 (amended): the check passes exactly when one and only one of "every
\* item carries bytes" and "every item carries a URL" holds, and otherwise
\* fails with AssertionError; so a non-empty list of single-source items passes
\* when homogeneous and fails when mixed, while the empty list and a list whose
\* items all carry both fail.  No HTTP call is issued.
C15_HomogeneityCheck ==
    CheckedImages =>
        /\ calls = <<>>
        /\ sessions = 0
        /\ outcome.kind = (IF AllCarryBytes # AllCarryUrl THEN "return" ELSE "raise")
        /\ outcome.kind = "raise" => outcome.exc = "AssertionError"
        /\ MixedImages => outcome.kind = "raise"
        /\ (SingleSourceImages /\ (AllCarryBytes \/ AllCarryUrl)) => outcome.kind = "return"
        /\ (AllCarryBytes /\ AllCarryUrl) => outcome.kind = "raise"

C15_Witness ==
    /\ CheckedImages
    /\ images = << [file_or_bytes |-> TRUE, url |-> FALSE],
                   [file_or_bytes |-> FALSE, url |-> TRUE] >>
    /\ outcome.exc = "AssertionError"

\* C16: a session is open exactly while a round trip is in flight: at most
\* one is open at any time, and none is open during a poll sleep or once the
\* call has returned, raised or been cancelled.
C16_SessionsReleased ==
    /\ sessions \in {0, 1}
    /\ pc \in RoundTrips => sessions = 1
    /\ pc \in {"idle", "sleep", "done"} => sessions = 0

C16_Witness ==
    /\ InPredict
    /\ pc = "done"
    /\ Len(calls) = 2
    /\ LastCall.op = "upload"
    /\ LastCall.res = "cancelled"
    /\ sessions = 0

\* The part of mime type m before "/" is t
MajorIs(m, t) == m = t \/ HasPrefix(m, t \o "/")

\* C18: predict_image with media whose MIME major type is not "image", and
\* predict_video with media whose major type is not "video", raise
\* IncorrectMediaTypeError and no request is sent.
C18_WrongMediaTypeRaisesFirst ==
    (\/ entry = "predict_image" /\ ~MajorIs(mime_type, "image")
     \/ entry = "predict_video" /\ ~MajorIs(mime_type, "video")) =>
        /\ pc = "done"
        /\ outcome.kind = "raise"
        /\ outcome.exc = "IncorrectMediaTypeError"
        /\ calls = <<>>
        /\ sessions = 0

C18_Witness ==
    /\ entry = "predict_video"
    /\ mime_type = "image/png"
    /\ pc = "done"
    /\ outcome.exc = "IncorrectMediaTypeError"
    /\ calls = <<>>

\* C19: get_results with a prediction type other than "image" or "video"
\* fails with ValueError whatever the round trip does, and before any request
\* is sent.
C19_UnsupportedTypeFailsFirst ==
    (entry = "get_results" /\ prediction_type \notin {"image", "video"}) =>
        /\ calls = <<>>
        /\ pc = "done"
        /\ outcome.exc = "ValueError"

\* C20: the task id sent in the trigger request, in every status request and
\* in the results request of one predict call is the prediction_task_uuid
\* that begin returned.
C20_SingleTaskId ==
    InPredict =>
        \A i \in 1..Len(calls) :
            calls[i].op \in {"trigger", "status", "results"} =>
                calls[i].uuid = begin_response.prediction_task_uuid

\* What a call running alone with this Media uploads as the file part
SoloUpload == FilePart(seek0(bytes_io(media))).value

SoloOutcome == IF bytes_io_raises(media) THEN "ValueError" ELSE "return"

\* C17: two concurrent predict calls given the same Media object each upload
\* the same bytes and reach the same outcome as a call running alone.
C17_ConcurrentCallsIndependent ==
    \A i \in DOMAIN tasks :
        /\ tasks[i].uploaded # NoUpload => tasks[i].uploaded = SoloUpload
        /\ tasks[i].pc = "done" => tasks[i].outcome = SoloOutcome

====
